---- MODULE Spec2Model ----
(***************************************************************************)
(* Model of the command-support layer of the TLE bot:                      *)
(*   src/tle/util/codeforces_common.py  (user_guard, initialize,           *)
(*       resolve_handles, SubFilter, error classes)                        *)
(*   src/tle/util/discord_common.py     (send_error_if, bot_error_handler) *)
(*                                                                         *)
(* The program runs on one asyncio event loop: code between two awaits is  *)
(* one atomic step, and coroutines interleave only at awaits.  Each action *)
(* below is one such step.                                                 *)
(***************************************************************************)
EXTENDS Integers, Sequences, FiniteSets, TLC

\* ------------------------------------------------------------------ bounds
NumInvocations == 3      \* guarded command invocations that may coexist
NumInitCalls == 2        \* invocations of initialize that may coexist
MaxCount == 3            \* cap of the bootstrap step counters
MaxTokens == 3           \* tokens in one resolve_handles call
MaxCntArg == 2           \* largest mincnt / maxcnt argument tried
MaxParsed == 3           \* tokens given to one SubFilter over all its parse calls
MaxSubs == 2             \* submissions in one filter_subs call
MaxSubsArgs == 1         \* arguments parsed before a filter_subs call
MaxSolvedSubs == 3       \* submissions in one filter_solved call
NumOnceCalls == 3        \* calls of wrappers made by once

\* ------------------------------------------------------------------ state
VARIABLES
    active,        \* active_groups: group -> set of user ids
    inv,           \* guarded invocations: position, caller, group, outcome
    initDone,      \* _initialize_done
    user_db,       \* user_db handle
    cache2,        \* cache2 handle
    writersMap,    \* _contest_id_to_writers_map
    ini,           \* invocations of initialize: position and argument
    steps,         \* how often each bootstrap step was performed
    ep,            \* the command error being handled and the handlers' progress
    sent,          \* messages sent to the user for that error
    logs,          \* log records written for that error
    rh,            \* the last resolve_handles call: its arguments and outcome
    sf,            \* a SubFilter object
    pg,            \* what parse was given so far, and how the last call ended
    fs,            \* the last filter_subs call: its argument and result
    so,            \* the last filter_solved call: its argument and result
    first,         \* the `first` cell of each wrapper made by once
    oc             \* the calls of those wrappers

guardVars == <<active, inv>>
initVars == <<initDone, user_db, cache2, writersMap, ini, steps>>
errVars == <<ep, sent, logs>>
vars == <<active, inv, initDone, user_db, cache2, writersMap, ini, steps,
          ep, sent, logs, rh, sf, pg, fs, so, first, oc>>

\* what each component leaves alone
filterVars == <<sf, pg>>
onceVars == <<first, oc>>
notGuard == <<initVars, errVars, rh, filterVars, fs, so, onceVars>>
notInit == <<guardVars, errVars, rh, filterVars, fs, so, onceVars>>
notErr == <<guardVars, initVars, rh, filterVars, fs, so, onceVars>>
notResolve == <<guardVars, initVars, errVars, filterVars, fs, so, onceVars>>
notFilter == <<guardVars, initVars, errVars, rh, fs, so, onceVars>>
notSubs == <<guardVars, initVars, errVars, rh, filterVars, so, onceVars>>
notSolved == <<guardVars, initVars, errVars, rh, filterVars, fs, onceVars>>
notOnce == <<guardVars, initVars, errVars, rh, filterVars, fs, so>>

\* ------------------------------------------------------- user_guard
Users == {"u1", "u2"}
Groups == {"g1", "g2"}
InvIds == 1..NumInvocations

\* factory records, for a suppressed invocation, whether its command was
\* decorated with a get_exception; sawInflight, whether an execution of the
\* same user and group was in progress when the invocation was made
NoInv == [pc |-> "idle", user |-> "u1", group |-> "g1", factory |-> FALSE,
          sawInflight |-> FALSE, outcome |-> "none"]

\* an execution of the wrapped handler of group g by user u is in progress
Running(i, u, g) ==
    inv[i].pc = "running" /\ inv[i].user = u /\ inv[i].group = g

\* `user in active`
IsActive(act, g, u) == u \in act[g]

GuardEnter_NoAdd(act, g, u) == act

\* `active.add(user)`
GuardEnter(act, g, u) == [act EXCEPT ![g] = @ \cup {u}]

GuardExit_NoFinally(act, g, u, raised) ==
    IF raised THEN act ELSE [act EXCEPT ![g] = @ \ {u}]

\* `finally: active.remove(user)`, after the handler returned or raised
GuardExit(act, g, u, raised) == [act EXCEPT ![g] = @ \ {u}]

\* f(self, inter, ...) up to its first await: the membership test, the
\* suppression (return, or raise get_exception()) or the add and the start of
\* the wrapped handler
GuardCall(i, u, g, fac) ==
    /\ inv[i].pc \in {"idle", "done"}
    /\ LET inflight == \E j \in InvIds : j # i /\ Running(j, u, g)
           base == [pc |-> "done", user |-> u, group |-> g, factory |-> FALSE,
                    sawInflight |-> inflight, outcome |-> "none"]
       IN IF IsActive(active, g, u)
          THEN /\ inv' = [inv EXCEPT ![i] =
                     [base EXCEPT !.factory = fac, !.outcome =
                         IF fac THEN "guard_raised" ELSE "suppressed"]]
               /\ active' = active
          ELSE /\ inv' = [inv EXCEPT ![i] = [base EXCEPT !.pc = "running"]]
               /\ active' = GuardEnter(active, g, u)
    /\ UNCHANGED notGuard

\* the wrapped handler returns: the finally clause runs, f returns
GuardReturn(i) ==
    /\ inv[i].pc = "running"
    /\ active' = GuardExit(active, inv[i].group, inv[i].user, FALSE)
    /\ inv' = [inv EXCEPT ![i].pc = "done", ![i].outcome = "returned"]
    /\ UNCHANGED notGuard

\* the wrapped handler raises (or is cancelled): the finally clause runs and
\* the exception propagates
GuardRaise(i) ==
    /\ inv[i].pc = "running"
    /\ active' = GuardExit(active, inv[i].group, inv[i].user, TRUE)
    /\ inv' = [inv EXCEPT ![i].pc = "done", ![i].outcome = "handler_raised"]
    /\ UNCHANGED notGuard

\* ------------------------------------------------------- initialize
InitIds == 1..NumInitCalls

\* contents of the contest-writers JSON file: absent, not loadable into the
\* id -> writers mapping, or a list of {id, writers} records
WriterFiles ==
    {[kind |-> "missing", data |-> <<>>],
     [kind |-> "malformed", data |-> <<>>],
     [kind |-> "data", data |-> <<[id |-> 1, writers |-> <<"Tourist", "petr">>]>>],
     [kind |-> "data", data |-> <<[id |-> 1, writers |-> <<"petr">>],
                                  [id |-> 2, writers |-> <<>>]>>]}

\* the call has not reached the load of the writers file
NoFile == [kind |-> "none", data |-> <<>>]

\* `_contest_id_to_writers_map = None`
NoWriters == [none |-> TRUE, map |-> <<>>]

Lower(s) ==
    CASE s = "Tourist" -> "tourist"
      [] s = "TOURIST" -> "tourist"
      [] s = "Petr" -> "petr"
      [] s = "Codeforces" -> "codeforces"
      [] s = "Round" -> "round"
      [] s = "Kotlin" -> "kotlin"
      [] s = "Heroes" -> "heroes"
      [] s = "Gym" -> "gym"
      [] s = "Testing" -> "testing"
      [] s = "A" -> "a"
      [] s = "B" -> "b"
      [] OTHER -> s

\* {contest['id']: [s.lower() for s in contest['writers']] for contest in data}
LoadWriters(data) ==
    [c \in {data[k].id : k \in DOMAIN data} |->
        LET k == CHOOSE j \in DOMAIN data :
                     data[j].id = c /\ \A m \in DOMAIN data : data[m].id = c => m <= j
        IN {Lower(data[k].writers[n]) : n \in DOMAIN data[k].writers}]

Bump(st, f) == [st EXCEPT ![f] = IF @ < MaxCount THEN @ + 1 ELSE @]

\* `if _initialize_done: return`
InitCheck(done, k) == done

\* initialize(nodb) up to `await cf.initialize()`
InitCall(k, nodb) ==
    /\ ini[k].pc = "idle"
    /\ IF InitCheck(initDone, k)
       THEN /\ ini' = [ini EXCEPT ![k] = [pc |-> "returned_early", nodb |-> nodb,
                                             file |-> NoFile]]
            /\ steps' = steps
       ELSE /\ ini' = [ini EXCEPT ![k] = [pc |-> "await_cf", nodb |-> nodb,
                                             file |-> NoFile]]
            /\ steps' = Bump(steps, "cfInit")
    /\ UNCHANGED <<initDone, user_db, cache2, writersMap>>
    /\ UNCHANGED notInit

\* cf.initialize() completed: user_db and cache2 are assigned, and
\* `await cache2.run()` starts
InitOpenDbs(k) ==
    /\ ini[k].pc = "await_cf"
    /\ user_db' = IF ini[k].nodb THEN "DummyUserDbConn" ELSE "UserDbConn"
    /\ cache2' = "CacheSystem"
    /\ steps' = Bump(Bump(Bump(Bump(steps, "dbOpen"), "userDbAssign"),
                     "cacheCtor"), "cacheRun")
    /\ ini' = [ini EXCEPT ![k].pc = "await_run"]
    /\ UNCHANGED <<initDone, writersMap>>
    /\ UNCHANGED notInit

\* cf.initialize() raised: the exception propagates out of initialize
InitCfRaise(k) ==
    /\ ini[k].pc = "await_cf"
    /\ ini' = [ini EXCEPT ![k].pc = "raised"]
    /\ UNCHANGED <<initDone, user_db, cache2, writersMap, steps>>
    /\ UNCHANGED notInit

\* cache2.run() raised: the exception propagates out of initialize
InitCacheRunRaise(k) ==
    /\ ini[k].pc = "await_run"
    /\ ini' = [ini EXCEPT ![k].pc = "raised"]
    /\ UNCHANGED <<initDone, user_db, cache2, writersMap, steps>>
    /\ UNCHANGED notInit

\* cache2.run() completed: the writers file is loaded and the flag is set.
\* Only FileNotFoundError is caught; any other failure of the load propagates
\* before the flag is set.
InitLoadWriters(k, file) ==
    /\ ini[k].pc = "await_run"
    /\ steps' = Bump(steps, "writerLoad")
    /\ IF file.kind = "missing"
       THEN /\ writersMap' = writersMap
            /\ initDone' = TRUE
            /\ ini' = [ini EXCEPT ![k].pc = "done", ![k].file = file]
       ELSE IF file.kind = "malformed"
       THEN /\ writersMap' = writersMap
            /\ initDone' = initDone
            /\ ini' = [ini EXCEPT ![k].pc = "raised", ![k].file = file]
       ELSE /\ writersMap' = [none |-> FALSE, map |-> LoadWriters(file.data)]
            /\ initDone' = TRUE
            /\ ini' = [ini EXCEPT ![k].pc = "done", ![k].file = file]
    /\ UNCHANGED <<user_db, cache2>>
    /\ UNCHANGED notInit

\* is_contest_writer(contest_id, handle), by the truth value of what it
\* returns
is_contest_writer(contest_id, handle) ==
    IF writersMap.none THEN FALSE
    ELSE /\ contest_id \in DOMAIN writersMap.map
         /\ writersMap.map[contest_id] # {}
         /\ Lower(handle) \in writersMap.map[contest_id]

\* the contest ids and handles asked of is_contest_writer
QueryContests == {1, 2, 3}
QueryHandles == {"tourist", "Tourist", "TOURIST", "Petr", "petr", "rng_58"}

\* ------------------------------------------------------- error handling
\* Exception classes: those of codeforces_common.py with the bases they are
\* declared with, and those of disnake.ext.commands and of the API clients
\* that bot_error_handler tests for.
Parent(c) ==
    CASE c = "HandleCountOutOfBoundsError" -> "ResolveHandleError"
      [] c = "FindMemberFailedError" -> "ResolveHandleError"
      [] c = "FindRoleFailedError" -> "ResolveHandleError"
      [] c = "HandleNotRegisteredError" -> "ResolveHandleError"
      [] c = "HandleIsVjudgeError" -> "ResolveHandleError"
      [] c = "ResolveHandleError" -> "CommandError"
      [] c = "ParamParseError" -> "FilterError"
      [] c = "FilterError" -> "CommandError"
      [] c = "BadArgument" -> "UserInputError"
      [] c = "UserInputError" -> "CommandError"
      [] c = "NoPrivateMessage" -> "CheckFailure"
      [] c = "NotOwner" -> "CheckFailure"
      [] c = "CheckAnyFailure" -> "CheckFailure"
      [] c = "CheckFailure" -> "CommandError"
      [] c = "DisabledCommand" -> "CommandError"
      [] c = "CommandOnCooldown" -> "CommandError"
      [] c = "CommandInvokeError" -> "CommandError"
      [] c = "DatabaseDisabledError" -> "CommandError"
      [] c = "CodeforcesApiError" -> "CommandError"
      [] c = "ClistApiError" -> "CommandError"
      [] c = "CommandError" -> "Exception"
      [] OTHER -> "Exception"

RECURSIVE Ancestors(_)
Ancestors(c) == IF c = "Exception" THEN {c} ELSE {c} \cup Ancestors(Parent(c))

\* isinstance(error, classes)
IsInstance(c, classes) == Ancestors(c) \cap classes # {}

\* the classes a command may raise
RaisedKinds ==
    {"HandleCountOutOfBoundsError", "FindMemberFailedError", "FindRoleFailedError",
     "HandleNotRegisteredError", "HandleIsVjudgeError", "ParamParseError",
     "BadArgument", "NoPrivateMessage", "NotOwner", "CheckAnyFailure",
     "DisabledCommand", "CommandOnCooldown", "CommandInvokeError",
     "DatabaseDisabledError", "CodeforcesApiError", "ClistApiError"}

\* the user-input-class errors of this layer
LayerInputErrors ==
    {"HandleCountOutOfBoundsError", "FindMemberFailedError", "FindRoleFailedError",
     "HandleNotRegisteredError", "HandleIsVjudgeError", "ParamParseError"}

\* the cog's local error hook: absent, or wrapped by send_error_if(*kinds)
CogHooks ==
    {[present |-> FALSE, kinds |-> {}]} \cup
    {[present |-> TRUE, kinds |-> ks] :
        ks \in {{}, {"ResolveHandleError"}, {"HandleIsVjudgeError", "ParamParseError"},
                {"UserInputError", "CodeforcesApiError"}, {"CommandError"}}}

NoError == [pc |-> "idle", kind |-> "Exception", handled |-> FALSE,
            hook |-> [present |-> FALSE, kinds |-> {}],
            hookCalled |-> FALSE, markedBy |-> {}]

\* embed_alert(desc): an embed whose description is str(desc), in alert amber
embed_alert(desc) == [description |-> desc, color |-> "ALERT_AMBER"]

\* `await inter.send(embed=...)`, with the code that sent it
Send(msgs, by, embed) == Append(msgs, [by |-> by, embed |-> embed])

\* str(error): the message the error carries
ErrorText(kind) == <<"str", kind>>

\* a command raises an error of class kind; the error object is new and has
\* no `handled` attribute
CommandRaises(kind, hook) ==
    /\ ep.pc \in {"idle", "done"}
    /\ ep' = [NoError EXCEPT !.pc = IF hook.present THEN "cog_hook" ELSE "bot_handler",
                             !.kind = kind, !.hook = hook]
    /\ sent' = <<>>
    /\ logs' = <<>>
    /\ UNCHANGED notErr

WrapperMark_Forget(e) == e

\* `error.handled = True`
WrapperMark(e) == [e EXCEPT !.handled = TRUE, !.markedBy = @ \cup {"wrapper"}]

\* send_error_if(*error_cls).decorator.wrapper(cog, inter, error).  The wrapped
\* hook func is the cog's own code: it may or may not mark the error handled
\* and may or may not send a message of its own.
CogHook(hookMarks, hookSends) ==
    /\ ep.pc = "cog_hook"
    /\ logs' = Append(logs, [by |-> "wrapper", what |-> "channel_id"])
    /\ IF IsInstance(ep.kind, ep.hook.kinds)
       THEN /\ sent' = Send(sent, "wrapper", embed_alert(ErrorText(ep.kind)))
            /\ ep' = [WrapperMark(ep) EXCEPT !.pc = "bot_handler"]
       ELSE /\ sent' = IF hookSends
                       THEN Send(sent, "hook", [description |-> <<"hook">>,
                                                 color |-> "any"])
                       ELSE sent
            /\ ep' = [ep EXCEPT !.pc = "bot_handler", !.hookCalled = TRUE,
                                !.handled = @ \/ hookMarks,
                                !.markedBy = IF hookMarks THEN @ \cup {"hook"} ELSE @]
    /\ UNCHANGED notErr

\* the elif chain of bot_error_handler: the text sent, or <<>> for the else
\* branch, which logs
BotReply(kind) ==
    IF IsInstance(kind, {"DatabaseDisabledError"}) THEN <<"db_not_available">>
    ELSE IF IsInstance(kind, {"NoPrivateMessage"}) THEN <<"no_private_channels">>
    ELSE IF IsInstance(kind, {"DisabledCommand"}) THEN <<"temporarily_disabled">>
    ELSE IF IsInstance(kind, {"NotOwner"}) THEN <<"owner_only">>
    ELSE IF IsInstance(kind, {"CodeforcesApiError", "UserInputError"})
         THEN ErrorText(kind)
    ELSE IF IsInstance(kind, {"ClistApiError", "CheckAnyFailure", "CommandOnCooldown"})
         THEN ErrorText(kind)
    ELSE <<>>

\* bot_error_handler(inter, exception)
BotErrorHandler ==
    /\ ep.pc = "bot_handler"
    /\ ep' = [ep EXCEPT !.pc = "done"]
    /\ IF ep.handled
       THEN UNCHANGED <<sent, logs>>
       ELSE IF BotReply(ep.kind) # <<>>
       THEN /\ sent' = Send(sent, "bot", embed_alert(BotReply(ep.kind)))
            /\ logs' = logs
       ELSE /\ sent' = sent
            /\ logs' = Append(logs, [by |-> "bot", what |-> "exception"])
    /\ UNCHANGED notErr

\* ------------------------------------------------------- resolve_handles
\* A token is written as its leading sigil ("+!", "+", "!" or none) and the
\* rest of the string; "+server" is sigil "+" with name "server".
Tok(sigil, name) == [sigil |-> sigil, name |-> name]
Lit(h) == Tok("", h)
ServerTok == Tok("+", "server")

\* HandleIsVjudgeError.HANDLES
VjudgeHandles ==
    {"vjudge1", "vjudge2", "vjudge3", "vjudge4", "vjudge5",
     "luogu_bot1", "luogu_bot2", "luogu_bot3", "luogu_bot4", "luogu_bot5"}

TokenUniverse ==
    {ServerTok, Tok("+!", "red"), Tok("+!", "nosuchrole"), Tok("+", "lst"),
     Tok("!", "alice"), Tok("!", "bob"), Tok("!", "nobody"),
     Lit("tourist"), Lit("Petr"), Lit("vjudge1")}

Resources == {"codeforces.com", "atcoder.jp"}
Guilds == {"guild", "emptyguild"}

\* inter.guild.members, in list order
GuildMembers(guild) == IF guild = "guild" THEN <<"alice", "bob", "carol">> ELSE <<>>
\* member.roles
RoleMembers(guild, role) ==
    IF guild = "guild" /\ role = "red" THEN {"alice", "bob"} ELSE {}
\* role_converter.convert / converter.convert succeed
RoleExists(guild, role) == guild = "guild" /\ role \in {"red"}
MemberExists(guild, m) == guild = "guild" /\ m \in {"alice", "bob", "carol"}

\* user_db.get_handle(member.id, guild.id); "None" when not registered
get_handle(m, guild) ==
    IF guild # "guild" THEN "None"
    ELSE CASE m = "alice" -> "tourist"
           [] m = "carol" -> "Petr"
           [] OTHER -> "None"
\* user_db.get_handles_for_guild(guild.id), the handles of its pairs
get_handles_for_guild(guild) ==
    {get_handle(GuildMembers(guild)[n], guild) : n \in DOMAIN GuildMembers(guild)}
        \ {"None"}
\* user_db.get_list_handles(list_name, resource)
get_list_handles(name) ==
    IF name = "lst" THEN {"tourist", "Benq", "jiangly"} ELSE {}
\* user_db.get_account_id(member.id, guild.id, resource); 0 stands for None
get_account_id(m, guild) ==
    IF guild # "guild" THEN 0
    ELSE CASE m = "alice" -> 101
           [] m = "carol" -> 103
           [] OTHER -> 0
\* user_db.get_account_ids_for_resource(guild.id, resource), the account ids
get_account_ids_for_resource(guild) ==
    {get_account_id(GuildMembers(guild)[n], guild) : n \in DOMAIN GuildMembers(guild)}
        \ {0}
\* user_db.get_list_account_ids(list_name, resource)
get_list_account_ids(name) == IF name = "lst" THEN {101, 201, 202} ELSE {}
\* user_db.get_account_id_from_handle(handle, resource); 0 stands for None
get_account_id_from_handle(h) == IF h = "tourist" THEN 101 ELSE 0
\* clist.fetch_user_info(resource, handles): the ids of the users returned
fetch_user_info(hs) == {301 : h \in hs \cap {"Petr"}} \cup {302 : h \in hs \cap {"vjudge1"}}

\* the set `handles` after lines 252-265, as tokens
HandlesAfterServer(tokens, dflt, resource, guild) ==
    LET hs == IF dflt /\ tokens = {} THEN {ServerTok} ELSE tokens
    IN IF ServerTok \in hs
       THEN (hs \ {ServerTok}) \cup
            (IF resource = "codeforces.com"
             THEN {Lit(h) : h \in get_handles_for_guild(guild)} ELSE {})
       ELSE hs

\* the set `account_ids` after lines 255-265
AccountsAfterServer(tokens, dflt, resource, guild) ==
    LET hs == IF dflt /\ tokens = {} THEN {ServerTok} ELSE tokens
    IN IF ServerTok \in hs /\ resource # "codeforces.com"
       THEN get_account_ids_for_resource(guild) ELSE {}

CountOutOfBounds_NoMax(nacc, n, mincnt, maxcnt) == nacc = 0 /\ n < mincnt

\* line 266; maxcnt = 0 stands for a falsy maxcnt (None)
CountOutOfBounds(nacc, n, mincnt, maxcnt) ==
    nacc = 0 /\ (n < mincnt \/ (maxcnt # 0 /\ maxcnt < n))

IsVjudge_Never(h) == FALSE

\* `handle in HandleIsVjudgeError.HANDLES`
IsVjudge(h) == h \in VjudgeHandles

\* the last element of guild.members that holds the role, "" when none does
RECURSIVE LastWithRole(_, _)
LastWithRole(ms, holders) ==
    IF ms = <<>> THEN ""
    ELSE IF ms[Len(ms)] \in holders THEN ms[Len(ms)]
    ELSE LastWithRole(SubSeq(ms, 1, Len(ms) - 1), holders)

\* one iteration of the loop of lines 269-322 for token t: the exception it
\* raises (err), or the sets it extends.  `checked` is the value of the loop
\* variable `handle` when line 321 tests it: the branches of lines 279 and 302
\* rebind it to a looked-up handle.
ResolveStep(st, t, resource, guild) ==
    LET cf == resource = "codeforces.com"
        fail(e) == [st EXCEPT !.err = e]
        done(res, acc, checked) ==
            IF IsVjudge(checked) THEN fail("HandleIsVjudgeError")
            ELSE [err |-> "", resolved |-> res, accounts |-> acc]
    IN IF t.sigil = "+!"
       THEN IF ~RoleExists(guild, t.name) THEN fail("FindRoleFailedError")
            ELSE LET holders == {GuildMembers(guild)[n] : n \in DOMAIN GuildMembers(guild)}
                                   \cap RoleMembers(guild, t.name)
                     last == LastWithRole(GuildMembers(guild), holders)
                 IN IF cf
                    THEN done(st.resolved \cup
                                 ({get_handle(m, guild) : m \in holders} \ {"None"}),
                              st.accounts,
                              IF last = "" THEN "+!" ELSE get_handle(last, guild))
                    ELSE done(st.resolved,
                              st.accounts \cup
                                 ({get_account_id(m, guild) : m \in holders} \ {0}),
                              "+!")
       ELSE IF t.sigil = "+"
       THEN IF cf
            THEN done(st.resolved \cup get_list_handles(t.name), st.accounts, "+")
            ELSE done(st.resolved, st.accounts \cup get_list_account_ids(t.name), "+")
       ELSE IF t.sigil = "!"
       THEN IF ~MemberExists(guild, t.name) THEN fail("FindMemberFailedError")
            ELSE IF cf
            THEN IF get_handle(t.name, guild) = "None"
                 THEN fail("HandleNotRegisteredError")
                 ELSE done(st.resolved \cup {get_handle(t.name, guild)}, st.accounts,
                           get_handle(t.name, guild))
            ELSE IF get_account_id(t.name, guild) = 0
                 THEN fail("HandleNotRegisteredError")
                 ELSE done(st.resolved, st.accounts \cup {get_account_id(t.name, guild)},
                           "!")
       ELSE IF cf
            THEN done(st.resolved \cup {t.name}, st.accounts, t.name)
            ELSE IF get_account_id_from_handle(t.name) = 0
                 THEN done(st.resolved \cup {t.name}, st.accounts, t.name)
                 ELSE done(st.resolved,
                           st.accounts \cup {get_account_id_from_handle(t.name)}, t.name)

\* the loop over the set `handles`, whose iteration order is arbitrary: every
\* state the loop can end in (after the last token, or at the first raise)
RECURSIVE ResolveLoop(_, _, _, _)
ResolveLoop(st, todo, resource, guild) ==
    IF todo = {} THEN {st}
    ELSE UNION {LET nx == ResolveStep(st, t, resource, guild)
                IN IF nx.err # "" THEN {nx}
                   ELSE ResolveLoop(nx, todo \ {t}, resource, guild) : t \in todo}

\* lines 323-331: the list returned; clistNone: fetch_user_info returned None
ResolveResult(st, resource, clistNone) ==
    IF resource = "codeforces.com" THEN st.resolved
    ELSE IF st.resolved # {} /\ ~clistNone
         THEN st.accounts \cup fetch_user_info(st.resolved)
         ELSE st.accounts

NoCall == [pc |-> "idle", tokens |-> {}, mincnt |-> 1, maxcnt |-> 0, dflt |-> FALSE,
           resource |-> "codeforces.com", guild |-> "guild",
           outcome |-> "", result |-> {}]

\* resolve_handles(inter, converter, handles, mincnt=, maxcnt=,
\*                 default_to_all_server=, resource=).  The call reads the
\* database and the guild and changes neither, so one call from the initial
\* state stands for every call.
ResolveHandles(tokens, mincnt, maxcnt, dflt, resource, guild, clistNone) ==
    LET hs == HandlesAfterServer(tokens, dflt, resource, guild)
        acc == AccountsAfterServer(tokens, dflt, resource, guild)
        call == [NoCall EXCEPT !.pc = "done", !.tokens = tokens, !.mincnt = mincnt,
                               !.maxcnt = maxcnt, !.dflt = dflt,
                               !.resource = resource, !.guild = guild]
    IN /\ IF CountOutOfBounds(Cardinality(acc), Cardinality(hs), mincnt, maxcnt)
          THEN rh' = [call EXCEPT !.outcome = "HandleCountOutOfBoundsError"]
          ELSE \E st \in ResolveLoop([err |-> "", resolved |-> {}, accounts |-> acc],
                                     hs, resource, guild) :
                  rh' = IF st.err # ""
                        THEN [call EXCEPT !.outcome = st.err]
                        ELSE [call EXCEPT !.outcome = "ok",
                                 !.result = ResolveResult(st, resource, clistNone)]
       /\ UNCHANGED notResolve

\* ------------------------------------------------------- SubFilter.parse
\* A filter argument is the sequence of its characters.  Times are counted in
\* days (86400 s): parse_date yields midnights, read as UTC.
Take(str, n) == SubSeq(str, 1, IF n < Len(str) THEN n ELSE Len(str))
Drop(str, n) == SubSeq(str, n + 1, Len(str))
Min2(a, b) == IF a <= b THEN a ELSE b
Max2(a, b) == IF a >= b THEN a ELSE b

Digits == {"0", "1", "2", "3", "4", "5", "6", "7", "8", "9"}
DigitVal(c) ==
    CASE c = "0" -> 0 [] c = "1" -> 1 [] c = "2" -> 2 [] c = "3" -> 3
      [] c = "4" -> 4 [] c = "5" -> 5 [] c = "6" -> 6 [] c = "7" -> 7
      [] c = "8" -> 8 [] c = "9" -> 9

RECURSIVE DecVal(_)
DecVal(str) ==
    IF str = <<>> THEN 0
    ELSE 10 * DecVal(SubSeq(str, 1, Len(str) - 1)) + DigitVal(str[Len(str)])

AllDigits(str) == \A n \in DOMAIN str : str[n] \in Digits

\* int(text): ok is FALSE where int raises ValueError
ParseInt(str) ==
    LET body == IF str # <<>> /\ str[1] \in {"+", "-"} THEN Drop(str, 1) ELSE str
    IN IF body = <<>> \/ ~AllDigits(body) THEN [ok |-> FALSE, val |-> 0]
       ELSE [ok |-> TRUE,
             val |-> IF str[1] = "-" THEN 0 - DecVal(body) ELSE DecVal(body)]

IsLeap(y) == (y % 4 = 0 /\ y % 100 # 0) \/ y % 400 = 0
DaysInMonth(y, m) ==
    IF m = 2 THEN (IF IsLeap(y) THEN 29 ELSE 28)
    ELSE IF m \in {4, 6, 9, 11} THEN 30 ELSE 31

\* days from 1970-01-01 to y-m-d
DaysFromCivil(y, m, d) ==
    LET yy == IF m <= 2 THEN y - 1 ELSE y
        era == yy \div 400
        yoe == yy - era * 400
        mp == (m + 9) % 12
        doy == (153 * mp + 2) \div 5 + d - 1
        doe == yoe * 365 + yoe \div 4 - yoe \div 100 + doy
    IN era * 146097 + doe - 719468

\* parse_date(arg): ok is FALSE where it raises ParamParseError
parse_date(str) ==
    LET bad == [ok |-> FALSE, val |-> 0]
        date(y, m, d) ==
            IF y >= 1 /\ m \in 1..12 /\ d >= 1 /\ d <= DaysInMonth(y, m)
            THEN [ok |-> TRUE, val |-> DaysFromCivil(y, m, d)] ELSE bad
    IN IF ~AllDigits(str) THEN bad
       ELSE IF Len(str) = 8
       THEN date(DecVal(Drop(str, 4)), DecVal(SubSeq(str, 3, 4)), DecVal(Take(str, 2)))
       ELSE IF Len(str) = 6
       THEN date(DecVal(Drop(str, 2)), DecVal(Take(str, 2)), 1)
       ELSE IF Len(str) = 4
       THEN date(DecVal(str), 1, 1)
       ELSE bad

\* self.dhi's initial value 10**10 s, which lies in day 115740
DhiDefault == 115741
RloDefault == 500
RhiDefault == 3800
AllTypes == <<"CONTESTANT", "OUT_OF_COMPETITION", "VIRTUAL", "PRACTICE">>

NoFilter == [made |-> FALSE, team |-> FALSE, rated |-> TRUE, dlo |-> 0,
             dhi |-> DhiDefault, rlo |-> RloDefault, rhi |-> RhiDefault,
             types |-> <<>>, tags |-> <<>>, notags |-> <<>>,
             contests |-> <<>>, indices |-> <<>>]

NoParse == [parsed |-> FALSE, seen |-> {}, given |-> 0, last |-> "", rest |-> {}]

\* SubFilter.__init__(rated)
NewSubFilter(rated) ==
    /\ ~sf.made
    /\ sf' = [NoFilter EXCEPT !.made = TRUE, !.rated = rated]
    /\ pg' = NoParse
    /\ UNCHANGED notFilter

NarrowHi_Overwrite(cur, v) == v

\* min(self.dhi, ...), min(self.rhi, ...)
NarrowHi(cur, v) == Min2(cur, v)

\* max(self.dlo, ...), max(self.rlo, ...)
NarrowLo(cur, v) == Max2(cur, v)

TypeOf(arg) ==
    CASE arg = <<"+", "c", "o", "n", "t", "e", "s", "t">> -> "CONTESTANT"
      [] arg = <<"+", "o", "u", "t", "o", "f">> -> "OUT_OF_COMPETITION"
      [] arg = <<"+", "v", "i", "r", "t", "u", "a", "l">> -> "VIRTUAL"
      [] arg = <<"+", "p", "r", "a", "c", "t", "i", "c", "e">> -> "PRACTICE"
      [] OTHER -> ""

\* one iteration of the loop of lines 386-422: st holds the filter, the list
\* `rest`, the tokens applied so far and the exception raised, if any
ParseArg(st, arg) ==
    LET f == st.f
        fail(e) == [st EXCEPT !.err = e]
        set(g) == [st EXCEPT !.f = g, !.seen = @ \cup {arg}]
    IN IF arg = <<"+", "t", "e", "a", "m">> THEN set([f EXCEPT !.team = TRUE])
       ELSE IF TypeOf(arg) # "" THEN set([f EXCEPT !.types = Append(@, TypeOf(arg))])
       ELSE IF Take(arg, 2) = <<"c", "+">>
       THEN set([f EXCEPT !.contests = Append(@, Drop(arg, 2))])
       ELSE IF Take(arg, 2) = <<"i", "+">>
       THEN set([f EXCEPT !.indices = Append(@, Drop(arg, 2))])
       ELSE IF arg = <<>> THEN fail("IndexError")
       ELSE IF arg[1] = "+"
       THEN IF Len(arg) = 1 THEN fail("ParamParseError")
            ELSE set([f EXCEPT !.tags = Append(@, Drop(arg, 1))])
       ELSE IF arg[1] = "~"
       THEN IF Len(arg) = 1 THEN fail("ParamParseError")
            ELSE set([f EXCEPT !.notags = Append(@, Drop(arg, 1))])
       ELSE IF Take(arg, 2) = <<"d", "<">>
       THEN IF ~parse_date(Drop(arg, 2)).ok THEN fail("ParamParseError")
            ELSE set([f EXCEPT !.dhi = NarrowHi(@, parse_date(Drop(arg, 2)).val)])
       ELSE IF Take(arg, 3) = <<"d", ">", "=">>
       THEN IF ~parse_date(Drop(arg, 3)).ok THEN fail("ParamParseError")
            ELSE set([f EXCEPT !.dlo = NarrowLo(@, parse_date(Drop(arg, 3)).val)])
       ELSE IF Take(arg, 3) \in {<<"r", "<", "=">>, <<"r", ">", "=">>}
       THEN IF Len(arg) < 4 THEN fail("ParamParseError")
            ELSE IF ~ParseInt(Drop(arg, 3)).ok THEN fail("ValueError")
            ELSE IF arg[2] = ">"
            THEN set([f EXCEPT !.rlo = NarrowLo(@, ParseInt(Drop(arg, 3)).val),
                               !.rated = TRUE])
            ELSE set([f EXCEPT !.rhi = NarrowHi(@, ParseInt(Drop(arg, 3)).val),
                               !.rated = TRUE])
       ELSE [st EXCEPT !.rest = @ \cup {arg}]

\* the loop over list(set(args)), whose order is arbitrary: every state it can
\* end in (after the last argument, or at the first raise)
RECURSIVE ParseLoop(_, _)
ParseLoop(st, todo) ==
    IF todo = {} THEN {st}
    ELSE UNION {LET nx == ParseArg(st, a)
                IN IF nx.err # "" THEN {nx} ELSE ParseLoop(nx, todo \ {a}) :
                a \in todo}

\* `self.types = self.types or [...]`
DefaultTypes(types) == IF types = <<>> THEN AllTypes ELSE types

\* SubFilter.parse(args).  An exception leaves the fields as the loop had set
\* them and skips line 424.
Parse(args) ==
    /\ sf.made
    /\ pg.given + Cardinality(args) <= MaxParsed
    /\ \E st \in ParseLoop([f |-> sf, rest |-> {}, seen |-> pg.seen, err |-> ""], args) :
          /\ sf' = IF st.err # "" THEN st.f
                   ELSE [st.f EXCEPT !.types = DefaultTypes(@)]
          /\ pg' = [parsed |-> TRUE, seen |-> st.seen,
                    given |-> pg.given + Cardinality(args),
                    last |-> IF st.err # "" THEN st.err ELSE "ok",
                    rest |-> IF st.err # "" THEN {} ELSE st.rest]
    /\ UNCHANGED notFilter

\* arguments tried
FilterArgs ==
    {<<"+", "t", "e", "a", "m">>,
     <<"+", "v", "i", "r", "t", "u", "a", "l">>,
     <<"+", "p", "r", "a", "c", "t", "i", "c", "e">>,
     <<"c", "+", "1">>, <<"i", "+", "a">>,
     <<"+", "d", "p">>, <<"~", "d", "p">>, <<"+">>,
     <<"d", "<", "2", "0", "2", "1">>,
     <<"d", "<", "0", "6", "2", "0", "2", "0">>,
     <<"d", "<", "3", "1", "0", "2", "2", "0", "2", "0">>,
     <<"d", ">", "=", "2", "0", "1", "9">>,
     <<"d", ">", "=", "0", "1", "0", "3", "2", "0", "2", "0">>,
     <<"r", "<", "=", "1", "5", "0", "0">>,
     <<"r", "<", "=", "4", "0", "0", "0">>,
     <<"r", ">", "=", "1", "0", "0", "0">>,
     <<"r", ">", "=", "1", "0", "0">>,
     <<"r", ">", "=">>, <<"r", "<", "=", "x">>,
     <<"f", "o", "o">>}

\* ------------------------------------------------------- SubFilter.filter_subs
\* cf.GYM_ID_THRESHOLD
GYM_ID_THRESHOLD == 100000

\* cache2.contest_cache.contest_by_id; a name is the sequence of its words
contest_by_id ==
    [c \in {1, 2, 3, 100001, 100002} |->
       CASE c = 1 -> [id |-> 1, name |-> <<"Codeforces", "Round">>, startTimeSeconds |-> 18340]
         [] c = 2 -> [id |-> 2, name |-> <<"Kotlin", "Heroes">>, startTimeSeconds |-> 18345]
         [] c = 3 -> [id |-> 3, name |-> <<"Codeforces", "Round">>, startTimeSeconds |-> 18340]
         [] c = 100001 -> [id |-> 100001, name |-> <<"Gym">>, startTimeSeconds |-> 17000]
         [] c = 100002 -> [id |-> 100002, name |-> <<"Testing", "Gym">>,
                           startTimeSeconds |-> 17001]]

\* contest_by_id.get(problem.contestId, None)
ContestKnown(p) == p.contestId \in DOMAIN contest_by_id
ContestOf(p) == contest_by_id[p.contestId]

_NONSTANDARD_CONTEST_INDICATORS ==
    {"wild", "fools", "surprise", "unknown", "friday", "q#", "testing",
     "marathon", "kotlin", "onsite", "experimental", "abbyy"}

\* any(string in contest.name.lower() for string in the indicators), a name
\* containing an indicator when one of its words is one
is_nonstandard_contest(contest) ==
    \E n \in DOMAIN contest.name :
       Lower(contest.name[n]) \in _NONSTANDARD_CONTEST_INDICATORS

SpecialTag == <<"*", "s", "p", "e", "c", "i", "a", "l">>

\* problem.tag_matches(tags): the problem carries every tag
tag_matches(problem, tags) == \A n \in DOMAIN tags : tags[n] \in problem.tags
\* problem.tag_matches_or(tags) == None: the problem carries none of the tags
tag_matches_none(problem, tags) == \A n \in DOMAIN tags : tags[n] \notin problem.tags
\* contest.matches(markers): a marker names the contest's id
contest_matches(contest, markers) ==
    \E n \in DOMAIN markers :
       ParseInt(markers[n]).ok /\ ParseInt(markers[n]).val = contest.id

is_nonstandard_problem(problem) ==
    \/ is_nonstandard_contest(ContestOf(problem))
    \/ tag_matches(problem, <<SpecialTag>>)

LowerChars(str) == [n \in DOMAIN str |-> Lower(str[n])]

\* stable sort by creationTimeSeconds (list.sort)
RECURSIVE InsertByTime(_, _)
InsertByTime(sorted, x) ==
    IF sorted = <<>> THEN <<x>>
    ELSE IF sorted[Len(sorted)].creationTimeSeconds <= x.creationTimeSeconds
    THEN Append(sorted, x)
    ELSE Append(InsertByTime(SubSeq(sorted, 1, Len(sorted) - 1), x), sorted[Len(sorted)])

RECURSIVE SortByTime(_)
SortByTime_NoSort(subs) == subs

SortByTime(subs) ==
    IF subs = <<>> THEN <<>>
    ELSE InsertByTime(SortByTime(SubSeq(subs, 1, Len(subs) - 1)), subs[Len(subs)])

\* (problem.name, contest.startTimeSeconds if contest else 0)
ProblemKey(p) ==
    <<p.name, IF ContestKnown(p) THEN ContestOf(p).startTimeSeconds ELSE 0>>

\* the loop of filter_solved over the sorted list
RECURSIVE SolvedLoop(_, _, _)
SolvedLoop(subs, problems, solved) ==
    IF subs = <<>> THEN solved
    ELSE LET sub == Head(subs)
         IN IF sub.verdict = "OK" /\ ProblemKey(sub.problem) \notin problems
            THEN SolvedLoop(Tail(subs), problems \cup {ProblemKey(sub.problem)},
                            Append(solved, sub))
            ELSE SolvedLoop(Tail(subs), problems, solved)

\* SubFilter.filter_solved(submissions)
filter_solved(subs) == SolvedLoop(SortByTime(subs), {}, <<>>)

\* the predicates of lines 453-459
TypeOk(f, sub) == sub.author.participantType \in {f.types[n] : n \in DOMAIN f.types}
DateOk(f, sub) == f.dlo <= sub.creationTimeSeconds /\ sub.creationTimeSeconds < f.dhi
TagOk(f, sub) == f.tags = <<>> \/ tag_matches(sub.problem, f.tags)
NotagOk(f, sub) == f.notags = <<>> \/ tag_matches_none(sub.problem, f.notags)
IndexOk(f, sub) ==
    \/ f.indices = <<>>
    \/ \E n \in DOMAIN f.indices :
          LowerChars(f.indices[n]) = LowerChars(sub.problem.index)
ContestOk(f, sub) ==
    \/ f.contests = <<>>
    \/ ContestKnown(sub.problem) /\ contest_matches(ContestOf(sub.problem), f.contests)
TeamOk(f, sub) == f.team \/ sub.author.members = 1

ProblemOk_NoGymTest(f, sub) ==
    IF f.rated
    THEN ContestKnown(sub.problem) /\ ~is_nonstandard_problem(sub.problem)
    ELSE \/ ~ContestKnown(sub.problem)
         \/ ContestOf(sub.problem).id >= GYM_ID_THRESHOLD
         \/ ~is_nonstandard_problem(sub.problem)

\* problem_ok, lines 460-466
ProblemOk(f, sub) ==
    IF f.rated
    THEN /\ ContestKnown(sub.problem)
         /\ ContestOf(sub.problem).id < GYM_ID_THRESHOLD
         /\ ~is_nonstandard_problem(sub.problem)
    ELSE \/ ~ContestKnown(sub.problem)
         \/ ContestOf(sub.problem).id >= GYM_ID_THRESHOLD
         \/ ~is_nonstandard_problem(sub.problem)

\* rating_ok, lines 462 and 467; rating 0 stands for a problem without rating
RatingOk(f, sub) ==
    IF f.rated
    THEN sub.problem.rating # 0 /\ f.rlo <= sub.problem.rating
            /\ sub.problem.rating <= f.rhi
    ELSE TRUE

Admitted(f, sub) ==
    /\ TypeOk(f, sub) /\ DateOk(f, sub) /\ RatingOk(f, sub) /\ TagOk(f, sub)
    /\ NotagOk(f, sub) /\ TeamOk(f, sub) /\ ProblemOk(f, sub)
    /\ ContestOk(f, sub) /\ IndexOk(f, sub)

\* SubFilter.filter_subs(submissions)
filter_subs(f, subs) == SelectSeq(filter_solved(subs), LAMBDA sub : Admitted(f, sub))

Problem(name, contestId, index, rating, tags) ==
    [name |-> name, contestId |-> contestId, index |-> index, rating |-> rating,
     tags |-> tags]
Sub(t, verdict, problem, ptype, members) ==
    [creationTimeSeconds |-> t, verdict |-> verdict, problem |-> problem,
     author |-> [participantType |-> ptype, members |-> members]]

\* problems tried: rated and standard, without rating, of a nonstandard
\* contest, of gym contests, of an unknown contest, rated above every bound,
\* and tagged *special
Problems ==
    {Problem("A", 1, <<"A">>, 1500, {<<"d", "p">>}),
     Problem("B", 1, <<"B">>, 0, {}),
     Problem("K", 2, <<"A">>, 1200, {}),
     Problem("G", 100001, <<"A">>, 1600, {<<"d", "p">>}),
     Problem("T", 100002, <<"B">>, 0, {}),
     Problem("S", 7, <<"A">>, 0, {}),
     Problem("X", 1, <<"B">>, 3900, {}),
     Problem("Sp", 3, <<"A">>, 1400, {SpecialTag})}

\* submissions tried
Submissions ==
    {Sub(18350, "OK", p, "CONTESTANT", 1) : p \in Problems} \cup
    {Sub(18500, "OK", Problem("A", 1, <<"A">>, 1500, {<<"d", "p">>}), "PRACTICE", 1),
     Sub(18000, "WRONG_ANSWER", Problem("A", 1, <<"A">>, 1500, {<<"d", "p">>}),
         "CONTESTANT", 1),
     Sub(18000, "OK", Problem("S", 7, <<"A">>, 0, {}), "PRACTICE", 1),
     Sub(18350, "OK", Problem("G", 100001, <<"A">>, 1600, {<<"d", "p">>}),
         "CONTESTANT", 2)}

NoSubsCall == [pc |-> "idle", f |-> NoFilter, subs |-> <<>>, result |-> <<>>]

\* a call of filter_subs on the SubFilter; it changes no state that a later
\* call reads, so one call stands for every call
FilterSubs(subs) ==
    /\ sf.made
    /\ fs.pc = "idle"
    /\ fs' = [pc |-> "done", f |-> sf, subs |-> subs,
              result |-> filter_subs(sf, subs)]
    /\ UNCHANGED notSubs

NoSolvedCall == [pc |-> "idle", subs |-> <<>>, result |-> <<>>]

\* a call of the static method filter_solved
FilterSolved(subs) ==
    /\ so.pc = "idle"
    /\ so' = [pc |-> "done", subs |-> subs, result |-> filter_solved(subs)]
    /\ UNCHANGED notSolved

\* submissions tried by filter_solved: one problem solved twice and failed
\* twice, a problem of another contest with the same name and start time, a
\* second problem of the contest, and two problems of one name in unknown
\* contests
SolvedSubmissions ==
    {Sub(10, "OK", Problem("A", 1, <<"A">>, 1500, {}), "CONTESTANT", 1),
     Sub(20, "OK", Problem("A", 1, <<"A">>, 1500, {}), "PRACTICE", 1),
     Sub(5, "WRONG_ANSWER", Problem("A", 1, <<"A">>, 1500, {}), "CONTESTANT", 1),
     Sub(15, "WRONG_ANSWER", Problem("A", 1, <<"A">>, 1500, {}), "PRACTICE", 1),
     Sub(10, "OK", Problem("A", 3, <<"A">>, 1500, {}), "PRACTICE", 1),
     Sub(15, "OK", Problem("B", 1, <<"B">>, 1600, {}), "CONTESTANT", 1),
     Sub(20, "OK", Problem("S", 7, <<"A">>, 0, {}), "PRACTICE", 1),
     Sub(10, "OK", Problem("S", 8, <<"A">>, 0, {}), "CONTESTANT", 1)}

\* ------------------------------------------------------- once
\* the wrappers: the on_ready handler registered by on_ready_event_once, and
\* a function decorated with once directly
Wrappers == {"on_ready", "decorated"}
OnceIds == 1..NumOnceCalls

\* saw: for a call that found `first` false, where the executing call was
NoOnceCall == [pc |-> "idle", w |-> "none", nth |-> 0, saw |-> "none"]

\* the calls of wrapper w that entered func, and where they are
Started(w) == {k \in OnceIds : oc[k].w = w /\ oc[k].pc \in {"in_func", "returned", "raised"}}
CallsOf(w) == {k \in OnceIds : oc[k].w = w}

FirstAfterEnter_Late(f) == f

\* `first = False`, before `await func(...)`
FirstAfterEnter(f) == FALSE

\* wrapper(*args, **kwargs) up to `await func(*args, **kwargs)`, or to its
\* return when `first` is false
OnceCall(k, w) ==
    /\ oc[k].pc = "idle"
    /\ IF first[w]
       THEN /\ first' = [first EXCEPT ![w] = FirstAfterEnter(first[w])]
            /\ oc' = [oc EXCEPT ![k] = [pc |-> "in_func", w |-> w,
                                        nth |-> Cardinality(CallsOf(w)) + 1,
                                        saw |-> "none"]]
       ELSE /\ first' = first
            /\ oc' = [oc EXCEPT ![k] =
                        [pc |-> "skipped", w |-> w,
                         nth |-> Cardinality(CallsOf(w)) + 1,
                         saw |-> IF \E j \in Started(w) : oc[j].pc = "in_func"
                                 THEN "suspended"
                                 ELSE IF \E j \in Started(w) : oc[j].pc = "raised"
                                 THEN "raised" ELSE "returned"]]
    /\ UNCHANGED notOnce

\* func returned: the wrapper returns
OnceFuncReturn(k) ==
    /\ oc[k].pc = "in_func"
    /\ oc' = [oc EXCEPT ![k].pc = "returned"]
    /\ UNCHANGED <<first, notOnce>>

\* func raised: the exception propagates out of the wrapper
OnceFuncRaise(k) ==
    /\ oc[k].pc = "in_func"
    /\ oc' = [oc EXCEPT ![k].pc = "raised"]
    /\ UNCHANGED <<first, notOnce>>

\* ------------------------------------------------------- specification
Init ==
    /\ active = [g \in Groups |-> {}]
    /\ inv = [i \in InvIds |-> NoInv]
    /\ initDone = FALSE
    /\ user_db = "None"
    /\ cache2 = "None"
    /\ writersMap = NoWriters
    /\ ini = [k \in InitIds |-> [pc |-> "idle", nodb |-> FALSE, file |-> NoFile]]
    /\ steps = [f \in {"cfInit", "dbOpen", "userDbAssign", "cacheCtor",
                       "cacheRun", "writerLoad"} |-> 0]
    /\ ep = NoError
    /\ sent = <<>>
    /\ logs = <<>>
    /\ rh = NoCall
    /\ sf = NoFilter
    /\ pg = NoParse
    /\ fs = NoSubsCall
    /\ so = NoSolvedCall
    /\ first = [w \in Wrappers |-> TRUE]
    /\ oc = [k \in OnceIds |-> NoOnceCall]

\* commands wrapped by user_guard, invoked and completed in any interleaving
Next ==
    \/ \E i \in InvIds, u \in Users, g \in Groups, fac \in BOOLEAN :
          GuardCall(i, u, g, fac)
    \/ \E i \in InvIds : GuardReturn(i)
    \/ \E i \in InvIds : GuardRaise(i)

Spec == Init /\ [][Next]_vars

\* invocations of initialize (the on_ready signal may fire again at any time)
NextInit ==
    \/ \E k \in InitIds, nodb \in BOOLEAN : InitCall(k, nodb)
    \/ \E k \in InitIds : InitOpenDbs(k)
    \/ \E k \in InitIds : InitCfRaise(k)
    \/ \E k \in InitIds : InitCacheRunRaise(k)
    \/ \E k \in InitIds, file \in WriterFiles : InitLoadWriters(k, file)

SpecInit == Init /\ [][NextInit]_vars

\* command errors passing through the cog's hook and the bot's handler
NextErr ==
    \/ \E kind \in RaisedKinds, hook \in CogHooks : CommandRaises(kind, hook)
    \/ \E hookMarks \in BOOLEAN, hookSends \in BOOLEAN : CogHook(hookMarks, hookSends)
    \/ BotErrorHandler

SpecErr == Init /\ [][NextErr]_vars

TokenSets == {ts \in SUBSET TokenUniverse : Cardinality(ts) <= MaxTokens}

\* calls of resolve_handles with any arguments
NextResolve ==
    /\ rh.pc = "idle"
    /\ \E tokens \in TokenSets, mincnt \in 0..MaxCntArg, maxcnt \in 0..MaxCntArg,
          dflt \in BOOLEAN, resource \in Resources, guild \in Guilds,
          clistNone \in BOOLEAN :
             ResolveHandles(tokens, mincnt, maxcnt, dflt, resource, guild, clistNone)

SpecResolve == Init /\ [][NextResolve]_vars

\* the sets of at most k of the arguments tried
RECURSIVE ArgSetsUpTo(_)
ArgSetsUpTo(k) ==
    IF k = 0 THEN {{}}
    ELSE LET prev == ArgSetsUpTo(k - 1)
         IN prev \cup {as \cup {a} : as \in prev, a \in FilterArgs}

FilterArgSets == ArgSetsUpTo(MaxParsed)

\* one SubFilter, constructed and then given arguments in any number of calls
NextParse ==
    \/ \E rated \in BOOLEAN : NewSubFilter(rated)
    \/ \E args \in FilterArgSets : Parse(args)

SpecParse == Init /\ [][NextParse]_vars

\* the lists of at most k submissions
RECURSIVE SubListsUpTo(_)
SubListsUpTo(k) ==
    IF k = 0 THEN {<<>>}
    ELSE LET prev == SubListsUpTo(k - 1)
         IN prev \cup {Append(l, x) : l \in prev, x \in Submissions}

SubLists == SubListsUpTo(MaxSubs)

\* the arguments that bear on filter_subs
SubsArgs ==
    {<<"+", "t", "e", "a", "m">>,
     <<"+", "p", "r", "a", "c", "t", "i", "c", "e">>,
     <<"c", "+", "1">>, <<"i", "+", "a">>,
     <<"+", "d", "p">>, <<"~", "d", "p">>,
     <<"d", ">", "=", "0", "1", "0", "3", "2", "0", "2", "0">>,
     <<"r", "<", "=", "1", "5", "0", "0">>,
     <<"r", ">", "=", "1", "0", "0", "0">>}

SubsArgSets == {as \in FilterArgSets : as \subseteq SubsArgs /\ Cardinality(as) <= MaxSubsArgs}

\* a SubFilter is constructed, given its arguments and applied to a list
NextSubs ==
    \/ \E rated \in BOOLEAN : NewSubFilter(rated)
    \/ ~pg.parsed /\ fs.pc = "idle" /\ \E args \in SubsArgSets : Parse(args)
    \/ \E subs \in SubLists : FilterSubs(subs)

SpecSubs == Init /\ [][NextSubs]_vars

\* the lists of at most k submissions given to filter_solved
RECURSIVE SolvedListsUpTo(_)
SolvedListsUpTo(k) ==
    IF k = 0 THEN {<<>>}
    ELSE LET prev == SolvedListsUpTo(k - 1)
         IN prev \cup {Append(l, x) : l \in prev, x \in SolvedSubmissions}

SolvedLists == SolvedListsUpTo(MaxSolvedSubs)

SolvedArgSets == {{}, {<<"+", "p", "r", "a", "c", "t", "i", "c", "e">>}}

\* filter_solved is called on a list, directly or by filter_subs of a
\* SubFilter
NextSolved ==
    \/ \E rated \in BOOLEAN : NewSubFilter(rated)
    \/ ~pg.parsed /\ fs.pc = "idle" /\ so.pc = "idle"
          /\ \E args \in SolvedArgSets : Parse(args)
    \/ fs.pc = "idle" /\ so.pc = "idle" /\ \E subs \in SolvedLists : FilterSolved(subs)
    \/ fs.pc = "idle" /\ so.pc = "idle" /\ \E subs \in SolvedLists : FilterSubs(subs)

SpecSolved == Init /\ [][NextSolved]_vars

\* the wrappers are called, and the functions they run return or raise
NextOnce ==
    \/ \E k \in OnceIds, w \in Wrappers : OnceCall(k, w)
    \/ \E k \in OnceIds : OnceFuncReturn(k)
    \/ \E k \in OnceIds : OnceFuncRaise(k)

SpecOnce == Init /\ [][NextOnce]_vars

\* ------------------------------------------------------- claims
StepNames == DOMAIN steps
Suppressed(i) == inv[i].outcome \in {"suppressed", "guard_raised"}

\* C1: for each guard group and user id at most one execution of the wrapped
\* handler is in progress; an invocation is suppressed exactly when the same
\* user already had an execution in progress in the same group when it was
\* made (so never because of another user or another group), and a suppressed
\* invocation returns without raising exactly when no error factory is set.
C1_GuardExclusive ==
    /\ \A g \in Groups, u \in Users :
          Cardinality({i \in InvIds : Running(i, u, g)}) <= 1
    /\ \A i \in InvIds :
          inv[i].pc # "idle" =>
             /\ Suppressed(i) <=> inv[i].sawInflight
             /\ inv[i].pc = "running" => inv[i].outcome = "none"
             /\ Suppressed(i) =>
                   (inv[i].outcome = "suppressed" <=> ~inv[i].factory)

\* a suppressed call beside the execution that suppressed it, while the same
\* user runs a handler of the other group and the other user one of this group
C1_Witness ==
    \E i, j, k \in InvIds :
       /\ inv[i].outcome = "suppressed" /\ inv[i].pc = "done"
       /\ Running(j, inv[i].user, inv[i].group)
       /\ inv[k].pc = "running"
       /\ inv[k].user = inv[i].user /\ inv[k].group # inv[i].group

\* C2: a user id is in a group's active set if and only if that user has an
\* execution of a wrapped handler of that group in progress; so the id is gone
\* once the handler returned or raised, and a suppressed invocation, which
\* starts no execution, leaves the set as it was.
C2_ActiveIffRunning ==
    \A g \in Groups :
       active[g] = {u \in Users : \E i \in InvIds : Running(i, u, g)}

\* after a handler raised, the same user runs a handler of the same group
\* again, and a re-entrant call was suppressed meanwhile
C2_Witness ==
    \E i, j, k \in InvIds :
       /\ inv[i].pc = "done" /\ inv[i].outcome = "handler_raised"
       /\ Running(j, inv[i].user, inv[i].group)
       /\ inv[k].pc = "done" /\ Suppressed(k)
       /\ inv[k].user = inv[i].user /\ inv[k].group = inv[i].group

\* C3: over any invocations of initialize, also one that begins while another
\* is suspended at an await, every bootstrap step is performed at most once
\* and user_db and cache2 are assigned at most once.
C3_BootstrapOnce == \A f \in StepNames : steps[f] <= 1

SentBy(by) == {n \in DOMAIN sent : sent[n].by = by}
LoggedAsFailure == \E n \in DOMAIN logs : logs[n] = [by |-> "bot", what |-> "exception"]

\* C4: when a command raised one of this layer's user-input-class errors and
\* the error was not marked handled, bot_error_handler has sent the user an
\* alert embed carrying the error's message and has not logged the error as a
\* failure.
C4_InputErrorSurfaced ==
    (ep.pc = "done" /\ ep.kind \in LayerInputErrors /\ ~ep.handled) =>
       /\ \E n \in SentBy("bot") : sent[n].embed = embed_alert(ErrorText(ep.kind))
       /\ ~LoggedAsFailure

\* C5: for an error that passed through a hook wrapped by send_error_if(kinds)
\* and then through bot_error_handler, the wrapper and the handler together
\* sent at most one message.  If the error is an instance of one of the kinds,
\* the wrapper sent exactly one alert carrying the error's message, the error
\* is marked handled, the wrapped hook was not invoked and the handler sent
\* nothing; otherwise the wrapper sent nothing, invoked the wrapped hook and
\* did not mark the error handled.
C5_NoDoubleReport ==
    (ep.pc = "done" /\ ep.hook.present) =>
       /\ Cardinality(SentBy("wrapper")) + Cardinality(SentBy("bot")) <= 1
       /\ IF IsInstance(ep.kind, ep.hook.kinds)
          THEN /\ Cardinality(SentBy("wrapper")) = 1
               /\ \A n \in SentBy("wrapper") :
                     sent[n].embed = embed_alert(ErrorText(ep.kind))
               /\ ep.handled
               /\ ~ep.hookCalled
               /\ SentBy("bot") = {}
          ELSE /\ SentBy("wrapper") = {}
               /\ ep.hookCalled
               /\ "wrapper" \notin ep.markedBy

\* an error the bot's handler would itself report (a UserInputError) was
\* reported by the wrapper and passed through the handler
C5_Witness ==
    /\ ep.pc = "done" /\ ep.hook.present
    /\ ep.kind = "BadArgument" /\ IsInstance(ep.kind, ep.hook.kinds)
    /\ Len(sent) = 1 /\ sent[1].by = "wrapper"

\* the tokens of the call, with the `+server` that default_to_all_server adds
CallTokens == IF rh.dflt /\ rh.tokens = {} THEN {ServerTok} ELSE rh.tokens
CallHandles == HandlesAfterServer(rh.tokens, rh.dflt, rh.resource, rh.guild)
CallAccounts == AccountsAfterServer(rh.tokens, rh.dflt, rh.resource, rh.guild)
\* the number of tokens the count check sees is outside [mincnt, maxcnt]
TokenCountOut ==
    \/ Cardinality(CallHandles) < rh.mincnt
    \/ rh.maxcnt # 0 /\ Cardinality(CallHandles) > rh.maxcnt
WithinBounds(n) == rh.mincnt <= n /\ (rh.maxcnt # 0 => n <= rh.maxcnt)

\* C6 (as claimed): a call whose tokens include `+server`, a `+name` list token
\* or a `+!role` token is never rejected with HandleCountOutOfBoundsError; any
\* other call that returns has a result count within [mincnt, maxcnt].
C6_ExemptOrWithinBounds ==
    rh.pc = "done" =>
       IF \E t \in CallTokens : t.sigil \in {"+", "+!"}
       THEN rh.outcome # "HandleCountOutOfBoundsError"
       ELSE rh.outcome = "ok" => WithinBounds(Cardinality(rh.result))

\* C6 (amended): HandleCountOutOfBoundsError is raised exactly when `+server`
\* gathered no account id and the number of distinct tokens, counted before
\* resolution with `+server` replaced by the guild's registered handles
\* (codeforces.com), is below mincnt or above a given maxcnt; a `+name` or
\* `+!role` token counts as one token.  A codeforces.com call of literal and
\* `!member` tokens that returns has a result count of at most the token
\* count, so at most a given maxcnt, and of at least 1 when mincnt >= 1.
C6_TokenCountBounds ==
    rh.pc = "done" =>
       /\ rh.outcome = "HandleCountOutOfBoundsError" <=>
             (CallAccounts = {} /\ TokenCountOut)
       /\ ( /\ rh.outcome = "ok"
            /\ rh.resource = "codeforces.com"
            /\ \A t \in CallTokens : t.sigil \in {"", "!"} ) =>
               /\ Cardinality(rh.result) <= Cardinality(CallHandles)
               /\ rh.maxcnt # 0 => Cardinality(rh.result) <= rh.maxcnt
               /\ rh.mincnt >= 1 => Cardinality(rh.result) >= 1

\* a `+server` call rejected for its count
C6_Witness ==
    /\ rh.pc = "done" /\ rh.outcome = "HandleCountOutOfBoundsError"
    /\ rh.tokens = {ServerTok} /\ rh.resource = "codeforces.com"
    /\ rh.maxcnt = 1 /\ rh.mincnt = 1

MirrorLiteral == \E t \in rh.tokens : t.sigil = "" /\ t.name \in VjudgeHandles

\* a token whose resolution raises: an unknown role or member, or a member
\* with no handle (account) on file
TokenFails(t) ==
    \/ t.sigil = "+!" /\ ~RoleExists(rh.guild, t.name)
    \/ t.sigil = "!" /\ ~MemberExists(rh.guild, t.name)
    \/ t.sigil = "!" /\ rh.resource = "codeforces.com"
          /\ get_handle(t.name, rh.guild) = "None"
    \/ t.sigil = "!" /\ rh.resource # "codeforces.com"
          /\ get_account_id(t.name, rh.guild) = 0

\* C7 (as claimed): whenever the token list contains a literal handle of the
\* mirror blocklist the call raises HandleIsVjudgeError, whatever the other
\* tokens and the order of processing.
C7_MirrorAlwaysRejected ==
    (rh.pc = "done" /\ MirrorLiteral) => rh.outcome = "HandleIsVjudgeError"

\* C7 (amended): whenever the token list contains a literal handle of the
\* mirror blocklist the call returns no result: it raises HandleIsVjudgeError,
\* or HandleCountOutOfBoundsError from the count check that precedes
\* resolution, or the FindRoleFailedError, FindMemberFailedError or
\* HandleNotRegisteredError of a token that the iteration reaches first; it is
\* HandleIsVjudgeError when the count check passes and no other token fails.
C7_MirrorNeverAccepted ==
    (rh.pc = "done" /\ MirrorLiteral) =>
       /\ rh.outcome \in {"HandleIsVjudgeError", "HandleCountOutOfBoundsError",
                          "FindRoleFailedError", "FindMemberFailedError",
                          "HandleNotRegisteredError"}
       /\ rh.outcome \in {"FindRoleFailedError", "FindMemberFailedError",
                          "HandleNotRegisteredError"} =>
             \E t \in CallHandles : TokenFails(t)
       /\ (~(CallAccounts = {} /\ TokenCountOut)
             /\ \A t \in CallHandles : ~TokenFails(t)) =>
                rh.outcome = "HandleIsVjudgeError"

\* the blocklisted literal was reached before the failing token beside it
C7_Witness ==
    /\ rh.pc = "done" /\ rh.outcome = "HandleIsVjudgeError"
    /\ rh.tokens = {Lit("vjudge1"), Tok("!", "nobody"), Tok("+!", "nosuchrole")}

SetMin(S) == CHOOSE x \in S : \A y \in S : x <= y
SetMax(S) == CHOOSE x \in S : \A y \in S : x >= y
Range(q) == {q[n] : n \in DOMAIN q}
\* the values of the applied arguments that begin with the given prefix
DatesSeen(prefix) ==
    {parse_date(Drop(a, Len(prefix))).val :
        a \in {b \in pg.seen : Take(b, Len(prefix)) = prefix}}
RatingsSeen(prefix) ==
    {ParseInt(Drop(a, 3)).val : a \in {b \in pg.seen : Take(b, 3) = prefix}}

\* C8: across the parse calls on one SubFilter, in any argument order, dlo and
\* rlo never decrease and dhi and rhi never increase; dhi is the minimum of its
\* default and every `d<` date applied, dlo the maximum of its default and
\* every `d>=` date applied, rhi the minimum of 3800 and every `r<=` value,
\* rlo the maximum of 500 and every `r>=` value, and once an `r<=` or `r>=`
\* argument was applied rated is true.
C8_BoundsOnlyNarrow ==
    /\ [](sf.made =>
            /\ sf.dhi = SetMin({DhiDefault} \cup DatesSeen(<<"d", "<">>))
            /\ sf.dlo = SetMax({0} \cup DatesSeen(<<"d", ">", "=">>))
            /\ sf.rhi = SetMin({3800} \cup RatingsSeen(<<"r", "<", "=">>))
            /\ sf.rlo = SetMax({500} \cup RatingsSeen(<<"r", ">", "=">>))
            /\ (RatingsSeen(<<"r", "<", "=">>) \cup RatingsSeen(<<"r", ">", "=">>) # {}
                  => sf.rated))
    /\ [][(sf.made /\ sf'.made) =>
            /\ sf'.dlo >= sf.dlo /\ sf'.rlo >= sf.rlo
            /\ sf'.dhi <= sf.dhi /\ sf'.rhi <= sf.rhi]_vars

\* two `d<` dates were applied and the earlier one stands; an `r<=` above the
\* default was applied and the default stands
C8_Witness ==
    /\ sf.made
    /\ {<<"d", "<", "2", "0", "2", "1">>, <<"d", "<", "0", "6", "2", "0", "2", "0">>,
        <<"r", "<", "=", "4", "0", "0", "0">>} \subseteq pg.seen
    /\ sf.dhi = DaysFromCivil(2020, 6, 1)
    /\ sf.rhi = 3800 /\ sf.rated

TypeArgsSeen == {a \in pg.seen : TypeOf(a) # ""}

\* C9: in every state of a constructed SubFilter, after any number of parse
\* calls (also none), the allowed participation types are all four if no
\* participation-type argument was ever applied, and otherwise exactly the
\* types named by the participation-type arguments applied so far.
C9_TypesAsGiven ==
    sf.made =>
       Range(sf.types) = IF TypeArgsSeen = {} THEN Range(AllTypes)
                         ELSE {TypeOf(a) : a \in TypeArgsSeen}

\* a gym contest: known, with an id at or above the threshold
IsGym(p) == ContestKnown(p) /\ ContestOf(p).id >= GYM_ID_THRESHOLD

\* the type, date, tag (required and excluded), index, contest and team
\* predicates of the filter
OtherPredicatesPass(f, sub) ==
    /\ TypeOk(f, sub) /\ DateOk(f, sub) /\ TagOk(f, sub) /\ NotagOk(f, sub)
    /\ IndexOk(f, sub) /\ ContestOk(f, sub) /\ TeamOk(f, sub)

\* C10: filter_subs eligibility rule. After a call of filter_subs: if the
\* filter is rated, no returned submission has a problem without a rating, a
\* rating outside [rlo, rhi], an unknown contest, a contest id at or above the
\* gym threshold, or a nonstandard problem; if the filter is not rated, every
\* submission left by the one-accepted-submission-per-problem reduction whose
\* contest is unknown or a gym contest and that passes the type, date, tag,
\* index, contest and team predicates is returned, whatever its rating and
\* its nonstandard classification.
C10_EligibilityRule ==
    fs.pc = "done" =>
       /\ fs.f.rated =>
             \A s \in Range(fs.result) :
                /\ s.problem.rating # 0
                /\ fs.f.rlo <= s.problem.rating /\ s.problem.rating <= fs.f.rhi
                /\ ContestKnown(s.problem)
                /\ ContestOf(s.problem).id < GYM_ID_THRESHOLD
                /\ ~is_nonstandard_problem(s.problem)
       /\ ~fs.f.rated =>
             \A s \in Range(filter_solved(fs.subs)) :
                (~ContestKnown(s.problem) \/ IsGym(s.problem))
                   /\ OtherPredicatesPass(fs.f, s)
                => s \in Range(fs.result)

\* an unrated filter returned a submission of a gym contest with a
\* nonstandard name whose problem has no rating
C10_Witness ==
    /\ fs.pc = "done"
    /\ ~fs.f.rated
    /\ \E s \in Range(fs.result) :
          /\ IsGym(s.problem)
          /\ is_nonstandard_problem(s.problem)
          /\ s.problem.rating = 0

\* the accepted submissions of a list with the problem key of sub
AcceptedOfKey(subs, sub) ==
    {e \in Range(subs) : e.verdict = "OK" /\ ProblemKey(e.problem) = ProblemKey(sub.problem)}

\* C11: filter_solved. After a call of filter_solved, the result holds exactly
\* one submission for every problem key (name, contest start time or 0) that
\* has an accepted submission in the list; every returned submission is of
\* the list, has verdict OK and the smallest creation time among the accepted
\* submissions of its key; and the result is in order of creation time. After
\* a call of filter_subs, no returned submission has an earlier accepted
\* submission of its problem key that fails a predicate of the filter.
C11_EarliestAcceptedPerProblem ==
    /\ so.pc = "done" =>
          /\ \A e \in Range(so.subs) :
                e.verdict = "OK" =>
                   Cardinality({j \in DOMAIN so.result :
                       ProblemKey(so.result[j].problem) = ProblemKey(e.problem)}) = 1
          /\ \A j \in DOMAIN so.result :
                /\ so.result[j] \in Range(so.subs)
                /\ so.result[j].verdict = "OK"
                /\ \A e \in AcceptedOfKey(so.subs, so.result[j]) :
                      so.result[j].creationTimeSeconds <= e.creationTimeSeconds
                /\ \A k \in DOMAIN so.result :
                      j < k => so.result[j].creationTimeSeconds
                                  <= so.result[k].creationTimeSeconds
    /\ fs.pc = "done" =>
          \A s \in Range(fs.result) :
             ~ \E e \in AcceptedOfKey(fs.subs, s) :
                  /\ e.creationTimeSeconds < s.creationTimeSeconds
                  /\ ~Admitted(fs.f, e)

\* a list in which a problem is solved twice, the later submission first, and
\* another problem once: filter_solved returned the two first solutions in
\* order of time
C11_Witness ==
    /\ so.pc = "done"
    /\ Len(so.subs) = 3
    /\ so.subs[1].creationTimeSeconds = 20
    /\ so.subs[2].creationTimeSeconds = 10
    /\ so.subs[3].creationTimeSeconds = 15
    /\ \A n \in 1..3 : so.subs[n].verdict = "OK"
    /\ ProblemKey(so.subs[1].problem) = ProblemKey(so.subs[2].problem)
    /\ so.result = <<so.subs[2], so.subs[3]>>

\* the load of the writers file by call k failed
LoadFailed(k) == ini[k].file.kind \in {"missing", "malformed"}

\* the handle is, compared case-insensitively, in the writer list of the
\* contest in a file that was loaded
InLoadedWriters(contest_id, handle) ==
    \E k \in InitIds :
       /\ ini[k].file.kind = "data"
       /\ \E n \in DOMAIN ini[k].file.data :
             /\ ini[k].file.data[n].id = contest_id
             /\ \E m \in DOMAIN ini[k].file.data[n].writers :
                   Lower(ini[k].file.data[n].writers[m]) = Lower(handle)

\* C12: writer-file load failure is recovered. Whenever the load of the
\* writers file failed in a call of initialize (file missing, or content not
\* loadable into the mapping), that call completed and the bootstrap is marked
\* done, the registry holds no writer data and is_contest_writer answers false
\* for every contest id and handle; and is_contest_writer answers true only
\* for a handle in the writer list of that contest in a loaded file.
C12_WriterLoadRecovered ==
    /\ \A k \in InitIds :
          LoadFailed(k) =>
             /\ ini[k].pc = "done"
             /\ initDone
             /\ writersMap = NoWriters
             /\ \A c \in QueryContests, h \in QueryHandles : ~is_contest_writer(c, h)
    /\ \A c \in QueryContests, h \in QueryHandles :
          is_contest_writer(c, h) => InLoadedWriters(c, h)

\* the part of C12 that the code keeps when initialize is called once at a
\* time: a missing file leaves the call completed and the registry empty, and
\* a true answer names a loaded writer
C12_MissingFileRecovered ==
    /\ \A k \in InitIds :
          (ini[k].file.kind = "missing"
             /\ \A j \in InitIds : j # k => ini[j].file.kind \in {"none", "missing"})
          => /\ ini[k].pc = "done"
             /\ initDone
             /\ writersMap = NoWriters
             /\ \A c \in QueryContests, h \in QueryHandles : ~is_contest_writer(c, h)
    /\ \A c \in QueryContests, h \in QueryHandles :
          is_contest_writer(c, h) => InLoadedWriters(c, h)

\* C13: once / on_ready_event_once. Over any sequence of calls of a wrapper,
\* the wrapped function is started at most once, and every call after the
\* first has returned without executing it, also when it arrived while the
\* first call was suspended inside the function or after that execution
\* raised.
C13_StartedAtMostOnce ==
    /\ \A w \in Wrappers : Cardinality(Started(w)) <= 1
    /\ \A k \in OnceIds :
          /\ oc[k].nth > 1 => oc[k].pc = "skipped"
          /\ oc[k].nth = 1 => oc[k].pc # "skipped"

\* of three calls of one wrapper, the second arrived while the first was
\* suspended inside the function, the first execution then raised, and the
\* third arrived after that; neither later call executed the function
C13_Witness ==
    \E w \in Wrappers, i, j, k \in OnceIds :
       /\ oc[i].w = w /\ oc[j].w = w /\ oc[k].w = w
       /\ oc[i].nth = 1 /\ oc[i].pc = "raised"
       /\ oc[j].nth = 2 /\ oc[j].pc = "skipped" /\ oc[j].saw = "suspended"
       /\ oc[k].nth = 3 /\ oc[k].pc = "skipped" /\ oc[k].saw = "raised"

====
